---------------------------- MODULE Spec2Model ----------------------------
(***************************************************************************)
(* Model of simple_include_counter (src/src/main.rs): the directive lexer, *)
(* the file registry with stub synthesis, link resolution, the cycle       *)
(* detector, the transitive closure and the cost aggregation, run as the   *)
(* phases of process_data over one vector of FileInfo records.             *)
(*                                                                         *)
(* Strings are sequences of one-character strings, so that the lexer and   *)
(* the name comparisons work on characters as the code does.  Vec indices  *)
(* are 1-based here (Rust index i is i + 1).                               *)
(***************************************************************************)
EXTENDS Integers, Sequences, FiniteSets, TLC

VARIABLES
    pc,      \* position of main/process_data
    data,    \* Vec<FileInfo>
    to_add,  \* process_data's local: the HashSet process_step_parse returned
    circ,    \* what process_step_check_circular returned
    all      \* process_step_check_circular's local working set when its loop stopped

vars == <<pc, data, to_add, circ, all>>

---------------------------------------------------------------------------
(* Bounds of the model *)

\* real files load_files puts in the vector
MaxFiles == 3
\* #include directives over all loaded files together
MaxDirectives == 3
\* length of the texts the lexer specification enumerates
MaxTextLen == 5

---------------------------------------------------------------------------
(* Option / panic results *)

None == [tag |-> "None"]

Some(v) == [tag |-> "Some", val |-> v]

Panic == [tag |-> "Panic"]

(* String helpers: Rust's str methods on character sequences *)

Drop(s, n) == SubSeq(s, n + 1, Len(s))

starts_with(s, p) == Len(s) >= Len(p) /\ SubSeq(s, 1, Len(p)) = p

ends_with(s, p) == Len(s) >= Len(p) /\ SubSeq(s, Len(s) - Len(p) + 1, Len(s)) = p

\* str::find: byte offset (0-based) of the first match, None when there is none
find(s, p) ==
    LET hits == {i \in 0..(Len(s) - Len(p)) : SubSeq(s, i + 1, i + Len(p)) = p}
    IN  IF hits = {} THEN None
        ELSE Some(CHOOSE i \in hits : \A j \in hits : i <= j)

\* char::is_whitespace() || char::is_control()
IsWhitespaceOrControl(c) == c \in {" ", "\n", "\r", "\t"}

---------------------------------------------------------------------------
(* The directive lexer *)

count_file_lines_newlines(text) ==
    Cardinality({i \in 1..Len(text) : text[i] = "\n"})

\* str::lines().count(): lines end at "\n"; a last line without one counts
\* when it is not empty
count_file_lines(text) ==
    Cardinality({i \in 1..Len(text) : text[i] = "\n"})
        + (IF Len(text) > 0 /\ text[Len(text)] # "\n" THEN 1 ELSE 0)

skip_whitespace(s) ==
    IF s = <<>> THEN Panic   \* chars().nth(0).unwrap()
    ELSE IF IsWhitespaceOrControl(Head(s)) THEN Some(Tail(s))
    ELSE None

skip_to_end_of_line(s) ==
    LET idx == find(s, <<"\n">>)
    IN  IF idx.tag = "Some" THEN Drop(s, idx.val + 1) ELSE <<>>

skip_comment(s) ==
    IF starts_with(s, <<"/", "/">>) THEN Some(skip_to_end_of_line(Drop(s, 1)))
    ELSE IF starts_with(s, <<"/", "*">>) THEN
        LET idx == find(s, <<"*", "/">>)
        IN  IF idx.tag = "Some" THEN Some(Drop(s, idx.val + 2)) ELSE Some(<<>>)
    ELSE None

extract_include_name(s, closing) ==
    LET idx == find(s, closing)
    IN  IF idx.tag = "Some" THEN Some(SubSeq(s, 1, idx.val)) ELSE None

\* while let Some(ss) = skip_whitespace(s) { s = ss; }
RECURSIVE skip_whitespace_loop(_)
skip_whitespace_loop(s) ==
    LET r == skip_whitespace(s)
    IN  IF r.tag = "Panic" THEN Panic
        ELSE IF r.tag = "Some" THEN skip_whitespace_loop(r.val)
        ELSE Some(s)

IncludeKeyword == <<"i", "n", "c", "l", "u", "d", "e">>

\* Some(Some(IncludeInfo)), Some(None), or Panic
try_extract_include(s0) ==
    IF ~starts_with(s0, <<"#">>) THEN Some(None)
    ELSE
        LET s1 == skip_whitespace_loop(Drop(s0, 1))
        IN  IF s1.tag = "Panic" THEN Panic
            ELSE IF ~starts_with(s1.val, IncludeKeyword) THEN Some(None)
            ELSE
                LET s2 == skip_whitespace_loop(Drop(s1.val, 7))
                IN  IF s2.tag = "Panic" THEN Panic
                    ELSE
                        LET s == s2.val
                            system == starts_with(s, <<"<">>)
                            local == starts_with(s, <<"\"">>)
                            name == IF system
                                    THEN extract_include_name(Drop(s, 1), <<">">>)
                                    ELSE extract_include_name(Drop(s, 1), <<"\"">>)
                        IN  IF ~system /\ ~local THEN Panic  \* panic!("Shit happened")
                            ELSE IF name.tag = "Some"
                                 THEN Some(Some([name |-> name.val, system |-> system]))
                                 ELSE Some(None)

\* the loop of parse_file_data, from the rest s of the text
RECURSIVE parse_loop(_, _, _)
parse_loop(s, ret, clines) ==
    IF s = <<>> THEN [tag |-> "Ok", includes |-> ret, clines |-> clines]
    ELSE
        LET ws == skip_whitespace(s)
            cm == skip_comment(s)
        IN  IF ws.tag = "Some" THEN parse_loop(ws.val, ret, clines)
            ELSE IF cm.tag = "Some" THEN parse_loop(cm.val, ret, clines)
            ELSE
                LET inc == try_extract_include(s)
                IN  IF inc.tag = "Panic" THEN Panic
                    ELSE parse_loop(skip_to_end_of_line(s),
                                    IF inc.val.tag = "Some"
                                    THEN Append(ret, inc.val.val) ELSE ret,
                                    clines + 1)

parse_file_data(text) == parse_loop(text, <<>>, 0)

---------------------------------------------------------------------------
(* FileInfo and load_files *)

FileInfo_new(name, text, stab, source_file) ==
    [name |-> name, data |-> text, stab_file |-> stab, source_file |-> source_file,
     text_lines |-> 0, lines |-> 0, parsed_includes |-> <<>>,
     includes |-> <<>>, included_by |-> <<>>,
     includes_indirect |-> <<>>, included_by_indirect |-> <<>>,
     lines_with_all_includes |-> 0, lines_contributes_total |-> 0,
     lines_contributes_self |-> 0]

ExtH == <<".", "h">>

ExtCpp == <<".", "c", "p", "p">>

\* The entries read_dir yields, in the order it yields them: file names are
\* pairwise distinct; "r" carries no recognized extension.
DirEntries ==
    << <<"a", ".", "h">>, <<"r">>, <<"c", ".", "c", "p", "p">>,
       <<"b", ".", "h">>, <<"d", ".", "c", "p", "p">> >>

\* The names #include directives of the modelled files mention: two headers
\* and a source file of the directory; one that was not loaded is missing.
Targets ==
    { <<"a", ".", "h">>, <<"b", ".", "h">>, <<"c", ".", "c", "p", "p">> }

\* What each file holds after its #include lines.
Body(name) ==
    CASE name = <<"a", ".", "h">> -> <<"x", "\n">>
      [] name = <<"b", ".", "h">> -> <<"\n", "x", "\n", "x">>
      [] name = <<"c", ".", "c", "p", "p">> ->
            <<"/", "/", "x", "\n", "x", "\n", " ", "x", "\n", "x", "\n">>
      [] OTHER -> <<"/", "*", "x">>

\* One #include line: a header is included local-style, another file
\* system-style.
DirectiveLine(target) ==
    IF ends_with(target, ExtH)
    THEN <<"#", "i", "n", "c", "l", "u", "d", "e", " ", "\"">> \o target \o <<"\"", "\n">>
    ELSE <<"#", " ", "i", "n", "c", "l", "u", "d", "e", "<">> \o target \o <<">", "\n">>

RECURSIVE DirectiveLines(_)
DirectiveLines(incs) ==
    IF incs = <<>> THEN <<>>
    ELSE DirectiveLine(Head(incs)) \o DirectiveLines(Tail(incs))

BoundedSeq(S, n) == UNION {[1..k -> S] : k \in 0..n}

DirectivesLoaded ==
    Cardinality({p \in (1..Len(data)) \X (1..30) :
                    p[2] <= Len(data[p[1]].data) /\ data[p[1]].data[p[2]] = "#"})

\* position in DirEntries of the last entry read_dir has yielded so far
LastEntry ==
    IF data = <<>> THEN 0
    ELSE CHOOSE k \in 1..Len(DirEntries) : DirEntries[k] = data[Len(data)].name

\* load_files pushes one FileInfo for a directory entry
load_file(d, name, text) ==
    IF ~ends_with(name, ExtH) /\ ~ends_with(name, ExtCpp)
    THEN d
    ELSE Append(d, FileInfo_new(name, text, FALSE, ends_with(name, ExtCpp)))

---------------------------------------------------------------------------
(* process_step_parse *)

RECURSIVE parse_files_loop(_, _, _)
parse_files_loop(d, i, ret) ==
    IF i > Len(d) THEN [tag |-> "Ok", data |-> d, ret |-> ret]
    ELSE
        LET tl == count_file_lines(d[i].data)
            r == parse_file_data(d[i].data)
        IN  IF r.tag = "Panic"
            THEN [tag |-> "Panic", data |-> [d EXCEPT ![i].text_lines = tl], ret |-> ret]
            ELSE parse_files_loop(
                    [d EXCEPT ![i].text_lines = tl,
                              ![i].parsed_includes = r.includes,
                              ![i].lines = r.clines],
                    i + 1,
                    ret \cup {r.includes[k].name : k \in 1..Len(r.includes)})

process_step_parse(d) == parse_files_loop(d, 1, {})

---------------------------------------------------------------------------
(* process_step_generate_stubs *)

\* order: the names of the HashSet in the order its iterator yields them
RECURSIVE process_step_generate_stubs_nocheck(_, _)
process_step_generate_stubs_nocheck(d, order) ==
    IF order = <<>> THEN d
    ELSE process_step_generate_stubs_nocheck(
            Append(d, FileInfo_new(Head(order), <<>>, TRUE, FALSE)), Tail(order))

RECURSIVE process_step_generate_stubs(_, _)
process_step_generate_stubs(d, order) ==
    IF order = <<>> THEN d
    ELSE IF \E i \in 1..Len(d) : d[i].name = Head(order)
         THEN process_step_generate_stubs(d, Tail(order))
         ELSE process_step_generate_stubs(
                Append(d, FileInfo_new(Head(order), <<>>, TRUE, FALSE)), Tail(order))

\* the orders in which a HashSet holding S can be iterated
Orders(S) ==
    {o \in [1..Cardinality(S) -> S] : \A i, j \in DOMAIN o : i # j => o[i] # o[j]}

---------------------------------------------------------------------------
(* process_step_link_include *)

\* iter().enumerate().find_map(..): the first index holding the name
find_name(d, that_name) ==
    LET hits == {i \in 1..Len(d) : d[i].name = that_name}
    IN  IF hits = {} THEN None
        ELSE Some(CHOOSE i \in hits : \A j \in hits : i <= j)

RECURSIVE link_loop(_, _, _)
link_loop(d, idx, idx2) ==
    IF idx > Len(d) THEN [tag |-> "Ok", data |-> d]
    ELSE IF idx2 > Len(d[idx].parsed_includes) THEN link_loop(d, idx + 1, 1)
    ELSE
        LET idx_that == find_name(d, d[idx].parsed_includes[idx2].name)
        IN  IF idx_that.tag = "None" THEN [tag |-> "Panic", data |-> d]  \* unwrap()
            ELSE
                LET d1 == [d EXCEPT ![idx_that.val].included_by =
                                        Append(d[idx_that.val].included_by, idx)]
                    d2 == [d1 EXCEPT ![idx].includes =
                                        Append(d1[idx].includes, idx_that.val)]
                IN  link_loop(d2, idx, idx2 + 1)

process_step_link_include(d) == link_loop(d, 1, 1)

---------------------------------------------------------------------------
(* process_step_check_circular *)

\* Vec::remove(i)
RemoveAt(seq, i) == SubSeq(seq, 1, i - 1) \o SubSeq(seq, i + 1, Len(seq))

\* Vec::retain(|x| *x != idx_this)
RECURSIVE retain_ne(_, _)
retain_ne(seq, idx_this) ==
    IF seq = <<>> THEN <<>>
    ELSE IF Head(seq) # idx_this
         THEN <<Head(seq)>> \o retain_ne(Tail(seq), idx_this)
         ELSE retain_ne(Tail(seq), idx_this)

CircCheck_init(d) ==
    [i \in 1..Len(d) |-> [idx |-> i, included_by |-> d[i].included_by]]

\* a peeling that removes the node and leaves it in the others' lists
RECURSIVE peel_noretain(_)
peel_noretain(w) ==
    LET empties == {i \in 1..Len(w) : w[i].included_by = <<>>}
    IN  IF empties = {} THEN w
        ELSE peel_noretain(RemoveAt(w, CHOOSE i \in empties : \A j \in empties : i <= j))

\* the loop of process_step_check_circular: each pass removes the first
\* element whose included_by is empty, and that element's idx from the rest
RECURSIVE peel(_)
peel(w) ==
    LET empties == {i \in 1..Len(w) : w[i].included_by = <<>>}
    IN  IF empties = {} THEN w
        ELSE
            LET i == CHOOSE i \in empties : \A j \in empties : i <= j
                idx_this == w[i].idx
                rest == RemoveAt(w, i)
            IN  peel([k \in 1..Len(rest) |->
                        [rest[k] EXCEPT !.included_by = retain_ne(@, idx_this)]])

\* the value returned, from the working set the loop left
check_circular_result(w) ==
    IF w = <<>> THEN None ELSE Some(<<w[1].idx, w[1].included_by[1]>>)

---------------------------------------------------------------------------
(* process_step_link_include_indirect *)

RECURSIVE recurse_collect_includes(_, _, _)
RECURSIVE collect_includes_from(_, _, _, _)
\* the for loop of recurse_collect_includes, from the k-th include on
collect_includes_from(d, idx, k, ret) ==
    IF k > Len(d[idx].includes) THEN ret
    ELSE
        LET idx2 == d[idx].includes[k]
        IN  collect_includes_from(d, idx, k + 1,
                recurse_collect_includes(d, idx2, ret \cup {idx2}))

recurse_collect_includes(d, idx, ret) == collect_includes_from(d, idx, 1, ret)

RECURSIVE recurse_collect_included_by(_, _, _)
RECURSIVE collect_included_by_from(_, _, _, _)
collect_included_by_from(d, idx, k, ret) ==
    IF k > Len(d[idx].included_by) THEN ret
    ELSE
        LET idx2 == d[idx].included_by[k]
        IN  collect_included_by_from(d, idx, k + 1,
                recurse_collect_included_by(d, idx2, ret \cup {idx2}))

recurse_collect_included_by(d, idx, ret) == collect_included_by_from(d, idx, 1, ret)

\* HashSet::into_iter().collect(): every member once, in an unspecified
\* order; the model draws the ascending or the descending one
RECURSIVE into_vec(_, _)
into_vec(S, rev) ==
    IF S = {} THEN <<>>
    ELSE
        LET m == IF rev THEN CHOOSE x \in S : \A y \in S : y <= x
                 ELSE CHOOSE x \in S : \A y \in S : x <= y
        IN  <<m>> \o into_vec(S \ {m}, rev)

\* a closure that stops at the direct neighbours
process_step_link_include_indirect_direct(d, rev) ==
    [idx \in 1..Len(d) |->
        [d[idx] EXCEPT
            !.includes_indirect =
                into_vec({d[idx].includes[k] : k \in 1..Len(d[idx].includes)}, rev),
            !.included_by_indirect =
                into_vec({d[idx].included_by[k] : k \in 1..Len(d[idx].included_by)}, rev)]]

\* Each file's closures are computed from the direct relations alone, which
\* the loop does not change, so the files are independent of each other.
process_step_link_include_indirect(d, rev) ==
    [idx \in 1..Len(d) |->
        [d[idx] EXCEPT
            !.includes_indirect = into_vec(recurse_collect_includes(d, idx, {}), rev),
            !.included_by_indirect =
                into_vec(recurse_collect_included_by(d, idx, {}), rev)]]

---------------------------------------------------------------------------
(* process_step_calc_costs *)

RECURSIVE SumLines(_, _)
SumLines(d, seq) ==
    IF seq = <<>> THEN 0 ELSE d[Head(seq)].lines + SumLines(d, Tail(seq))

\* costs of file idx, with the files before it already done (their lines
\* and closures are not changed by the loop)
calc_costs_file(f, sum, weight) ==
    [f EXCEPT
        !.lines_with_all_includes = f.lines + sum,
        !.lines_contributes_self = f.lines * weight,
        !.lines_contributes_total = (f.lines + sum) * weight]

\* sums the direct includes, one term per directive
process_step_calc_costs_direct(d) ==
    [idx \in 1..Len(d) |->
        calc_costs_file(d[idx], SumLines(d, d[idx].includes),
                        Len(d[idx].included_by_indirect))]

\* weighs a file by the source files among its indirect includers
process_step_calc_costs_sources(d) ==
    [idx \in 1..Len(d) |->
        calc_costs_file(d[idx], SumLines(d, d[idx].includes_indirect),
            Cardinality({k \in 1..Len(d[idx].included_by_indirect) :
                            d[d[idx].included_by_indirect[k]].source_file}))]

\* weighs a source file 1
process_step_calc_costs_unit(d) ==
    [idx \in 1..Len(d) |->
        calc_costs_file(d[idx], SumLines(d, d[idx].includes_indirect),
            IF d[idx].source_file THEN 1 ELSE Len(d[idx].included_by_indirect))]

process_step_calc_costs(d) ==
    [idx \in 1..Len(d) |->
        calc_costs_file(d[idx], SumLines(d, d[idx].includes_indirect),
                        Len(d[idx].included_by_indirect))]

---------------------------------------------------------------------------
(* The program: load_files, then the phases of process_data *)

NotRun == [tag |-> "NotRun"]

Init ==
    /\ pc = "load"
    /\ data = <<>>
    /\ to_add = {}
    /\ circ = NotRun
    /\ all = <<>>

\* main, line 532: load_files reads the next directory entries up to a file
\* it keeps, whose text is some #include lines and the file's body
LoadFile ==
    /\ pc = "load"
    /\ Len(data) < MaxFiles
    /\ \E k \in (LastEntry + 1)..Len(DirEntries) :
       \E incs \in BoundedSeq(Targets, MaxDirectives - DirectivesLoaded) :
            /\ \A j \in (LastEntry + 1)..(k - 1) :
                    load_file(data, DirEntries[j], <<>>) = data
            /\ load_file(data, DirEntries[k], <<>>) # data
            /\ data' = load_file(data, DirEntries[k],
                                 DirectiveLines(incs) \o Body(DirEntries[k]))
    /\ UNCHANGED <<pc, to_add, circ, all>>

\* process_data, line 282
StepParse ==
    /\ pc = "load"
    /\ LET r == process_step_parse(data)
       IN  /\ data' = r.data
           /\ to_add' = r.ret
           /\ pc' = IF r.tag = "Panic" THEN "parse_panicked" ELSE "stubs"
    /\ UNCHANGED <<circ, all>>

\* process_data, line 284
StepGenerateStubs ==
    /\ pc = "stubs"
    /\ \E order \in Orders(to_add) :
            data' = process_step_generate_stubs(data, order)
    /\ pc' = "link"
    /\ UNCHANGED <<to_add, circ, all>>

\* process_data, line 286
StepLinkInclude ==
    /\ pc = "link"
    /\ LET r == process_step_link_include(data)
       IN  /\ data' = r.data
           /\ pc' = IF r.tag = "Panic" THEN "link_panicked" ELSE "circular"
    /\ UNCHANGED <<to_add, circ, all>>

\* a process_data that aggregates the costs before it gives up
process_data_on_cycle_costs(d) == process_step_calc_costs(d)

\* what process_data does to the vector on a witness pair: nothing, it
\* prints the pair and returns false
process_data_on_cycle(d) == d

\* process_data, lines 288-291
StepCheckCircular ==
    /\ pc = "circular"
    /\ all' = peel(CircCheck_init(data))
    /\ circ' = check_circular_result(all')
    /\ IF circ'.tag = "Some"
       THEN /\ pc' = "failed"
            /\ data' = process_data_on_cycle(data)
       ELSE /\ pc' = "indirect"
            /\ data' = data
    /\ UNCHANGED to_add

\* process_data, line 293
StepLinkIncludeIndirect ==
    /\ pc = "indirect"
    /\ \E rev \in BOOLEAN : data' = process_step_link_include_indirect(data, rev)
    /\ pc' = "costs"
    /\ UNCHANGED <<to_add, circ, all>>

\* process_data, lines 295-296
StepCalcCosts ==
    /\ pc = "costs"
    /\ data' = process_step_calc_costs(data)
    /\ pc' = "done"
    /\ UNCHANGED <<to_add, circ, all>>

Next ==
    \/ LoadFile
    \/ StepParse
    \/ StepGenerateStubs
    \/ StepLinkInclude
    \/ StepCheckCircular
    \/ StepLinkIncludeIndirect
    \/ StepCalcCosts

Spec == Init /\ [][Next]_vars

---------------------------------------------------------------------------
(* The lexer on arbitrary short texts: one file, parsed by process_step_parse *)

Alphabet == {"x", " ", "\n", "#", "/", "*"}

InitLex ==
    /\ pc = "load"
    /\ \E text \in BoundedSeq(Alphabet, MaxTextLen) :
            data = <<FileInfo_new(<<"f", ".", "h">>, text, FALSE, FALSE)>>
    /\ to_add = {}
    /\ circ = NotRun
    /\ all = <<>>

NextLex == StepParse

SpecLex == InitLex /\ [][NextLex]_vars

---------------------------------------------------------------------------
(* Graph notions the claims are stated with, defined from the relations    *)
(* themselves and not from the code's traversals                           *)

Nodes == 1..Len(data)

Range(seq) == {seq[k] : k \in 1..Len(seq)}

IncludesEdges == {e \in Nodes \X Nodes : e[2] \in Range(data[e[1]].includes)}

IncludedByEdges == {e \in Nodes \X Nodes : e[2] \in Range(data[e[1]].included_by)}

\* transitive closure of R over Nodes (Warshall)
RECURSIVE TransitiveClosureFrom(_, _)
TransitiveClosureFrom(R, k) ==
    IF k > Len(data) THEN R
    ELSE TransitiveClosureFrom(
            R \cup {e \in Nodes \X Nodes : <<e[1], k>> \in R /\ <<k, e[2]>> \in R},
            k + 1)

TransitiveClosure(R) == TransitiveClosureFrom(R, 1)

\* files reachable from i by one or more edges of R
Reachable(R, i) == {j \in Nodes : <<i, j>> \in TransitiveClosure(R)}

OnCycle(i) == <<i, i>> \in TransitiveClosure(IncludesEdges)

HasCycle == \E i \in Nodes : OnCycle(i)

\* the nodes no peeling can remove: the largest set each of whose members
\* is included by a member
Core ==
    UNION {S \in SUBSET Nodes :
              \A x \in S : \E y \in S : x \in Range(data[y].includes)}

RECURSIVE SumOfLines(_)
SumOfLines(S) ==
    IF S = {} THEN 0
    ELSE LET i == CHOOSE i \in S : TRUE
         IN  data[i].lines + SumOfLines(S \ {i})

NoDuplicates(seq) == Cardinality(Range(seq)) = Len(seq)

Linked == pc \in {"circular", "failed", "indirect", "costs", "done"}

Checked == pc \in {"failed", "indirect", "costs", "done"}

---------------------------------------------------------------------------
(* Claims *)

\* C1: process_step_check_circular returns None exactly when the forward
\* includes graph has no directed cycle, and a returned pair (a, b) has b a
\* direct includer of a that no peeling removes.
C1_CycleDetected ==
    Checked =>
        /\ (circ.tag = "None") <=> ~HasCycle
        /\ circ.tag = "Some" =>
              /\ circ.val[1] \in Range(data[circ.val[2]].includes)
              /\ circ.val[1] \in Core
              /\ circ.val[2] \in Core

C1_Witness ==
    /\ pc = "failed"
    /\ Len(data) >= 3
    /\ circ.val[1] # circ.val[2]
    /\ \E i \in Nodes : ~NoDuplicates(data[i].includes)

\* C2: when the cycle detector reports a pair, process_data has returned
\* false with every closure and cost field still at its initial value; the
\* closure and cost phases are reached only when it reported none.
C2_HaltsOnCycle ==
    /\ pc = "failed" =>
          /\ circ.tag = "Some"
          /\ \A i \in Nodes :
                /\ data[i].includes_indirect = <<>>
                /\ data[i].included_by_indirect = <<>>
                /\ data[i].lines_with_all_includes = 0
                /\ data[i].lines_contributes_self = 0
                /\ data[i].lines_contributes_total = 0
    /\ pc \in {"indirect", "costs", "done"} => circ.tag = "None"

C2_Witness ==
    /\ pc = "failed"
    /\ \E i \in Nodes : data[i].lines > 1 /\ data[i].includes # <<>>
                        /\ data[i].included_by # <<>>

\* C3: on a DAG, after process_step_link_include_indirect each file's
\* includes_indirect holds exactly the files reachable by one or more
\* includes edges, included_by_indirect exactly those reachable by one or
\* more included_by edges, each once, and never the file itself.
C3_ClosureExact ==
    pc \in {"costs", "done"} =>
        \A i \in Nodes :
            /\ Range(data[i].includes_indirect) = Reachable(IncludesEdges, i)
            /\ Range(data[i].included_by_indirect) = Reachable(IncludedByEdges, i)
            /\ NoDuplicates(data[i].includes_indirect)
            /\ NoDuplicates(data[i].included_by_indirect)
            /\ i \notin Range(data[i].includes_indirect)
            /\ i \notin Range(data[i].included_by_indirect)

C3_Witness ==
    /\ pc = "costs"
    /\ \E i, j, k \in Nodes :
          /\ j \in Range(data[i].includes)
          /\ k \in Range(data[j].includes)
          /\ k \notin Range(data[i].includes)
          /\ k \in Range(data[i].includes_indirect)
          /\ i \in Range(data[k].included_by_indirect)

\* C4: after process_step_calc_costs, lines_with_all_includes of a file is
\* its own code lines plus the code lines of each distinct file it
\* transitively includes, counted once.
C4_CombinedLines ==
    pc = "done" =>
        \A i \in Nodes :
            data[i].lines_with_all_includes =
                data[i].lines + SumOfLines(Reachable(IncludesEdges, i))

C4_Witness ==
    /\ pc = "done"
    /\ \E i, j, k \in Nodes :
          /\ j \in Range(data[i].includes)
          /\ k \in Range(data[i].includes)
          /\ k \in Range(data[j].includes)
          /\ data[k].lines > 0
          /\ data[i].lines_with_all_includes =
                data[i].lines + data[j].lines + data[k].lines

C7_Original ==
    Linked =>
        \A i \in Nodes :
            /\ NoDuplicates(data[i].includes)
            /\ NoDuplicates(data[i].included_by)

\* C8: after process_step_parse and process_step_generate_stubs the names
\* are unique, every name a parsed include mentions has exactly one record,
\* a stub is a stub file that is no source file, with empty text, no code
\* lines and no parsed includes, and the lookup of process_step_link_include
\* never fails.
C8_StubsComplete ==
    /\ pc # "link_panicked"
    /\ pc \in {"link", "circular", "failed", "indirect", "costs", "done"} =>
          /\ \A i, j \in Nodes : data[i].name = data[j].name => i = j
          /\ \A i \in Nodes : \A k \in 1..Len(data[i].parsed_includes) :
                Cardinality({j \in Nodes :
                    data[j].name = data[i].parsed_includes[k].name}) = 1
          /\ \A i \in Nodes :
                data[i].stab_file =>
                    /\ ~data[i].source_file
                    /\ data[i].data = <<>>
                    /\ data[i].lines = 0
                    /\ data[i].parsed_includes = <<>>
                    /\ data[i].name \in to_add
          /\ Cardinality({i \in Nodes : data[i].stab_file}) =
                Cardinality({n \in to_add :
                    \A i \in Nodes : ~data[i].stab_file => data[i].name # n})

C8_Witness ==
    /\ pc = "link"
    /\ \E i, j, s, r \in Nodes :
          /\ i # j
          /\ data[s].stab_file
          /\ ~data[r].stab_file
          /\ \E k \in 1..Len(data[i].parsed_includes) :
                data[i].parsed_includes[k].name = data[s].name
          /\ \E k \in 1..Len(data[j].parsed_includes) :
                data[j].parsed_includes[k].name = data[s].name
          /\ \E k \in 1..Len(data[j].parsed_includes) :
                data[j].parsed_includes[k].name = data[r].name

\* the physical lines of a text: its pieces between "\n"s, without the
\* empty piece after a last "\n"
LineStarts(text) ==
    {p \in 1..Len(text) : p = 1 \/ text[p - 1] = "\n"}

LineAt(text, p) ==
    LET ends == {e \in p..Len(text) : text[e] = "\n"}
    IN  IF ends = {} THEN SubSeq(text, p, Len(text))
        ELSE SubSeq(text, p, (CHOOSE e \in ends : \A f \in ends : e <= f) - 1)

\* the first character of a line that is neither whitespace nor control
FirstCode(line) ==
    LET code == {k \in 1..Len(line) : ~IsWhitespaceOrControl(line[k])}
    IN  IF code = {} THEN "" ELSE line[CHOOSE k \in code : \A m \in code : k <= m]

NoComments(text) ==
    \A i \in 1..(Len(text) - 1) :
        ~(text[i] = "/" /\ text[i + 1] \in {"/", "*"})

NoDirectives(text) ==
    \A p \in LineStarts(text) : FirstCode(LineAt(text, p)) # "#"

NoBlankLines(text) ==
    \A p \in LineStarts(text) : FirstCode(LineAt(text, p)) # ""

Parsed == pc \notin {"load", "parse_panicked"}

\* C9 as stated: a text with no directives and no comments has as many
\* code lines as physical lines.
C9_Original ==
    Parsed =>
        \A i \in Nodes :
            (~data[i].stab_file /\ NoComments(data[i].data)
                /\ NoDirectives(data[i].data)) =>
                data[i].lines = data[i].text_lines

\* C9 as amended: a text with no directives, no comments and no physical
\* line that is empty or holds only whitespace and control characters is
\* parsed, and has as many code lines as physical lines.
C9_LinesEqualTextLines ==
    /\ pc = "parse_panicked" =>
          \E i \in Nodes : ~NoDirectives(data[i].data) \/ ~NoComments(data[i].data)
    /\ Parsed =>
          \A i \in Nodes :
              (~data[i].stab_file /\ NoComments(data[i].data)
                  /\ NoDirectives(data[i].data) /\ NoBlankLines(data[i].data)) =>
                  data[i].lines = data[i].text_lines

C9_Witness ==
    /\ pc = "stubs"
    /\ NoComments(data[1].data)
    /\ NoDirectives(data[1].data)
    /\ NoBlankLines(data[1].data)
    /\ data[1].lines = 2
    /\ data[1].text_lines = 2
    /\ \E k \in 1..Len(data[1].data) : data[1].data[k] = " "
    /\ data[1].data[Len(data[1].data)] # "\n"

\* C10 as stated: when the peeling stops with nodes left, each of them, and
\* so the first of the returned pair, lies on a directed cycle.
C10_Original ==
    pc = "failed" =>
        /\ \A k \in 1..Len(all) : OnCycle(all[k].idx)
        /\ OnCycle(circ.val[1])

=============================================================================
